---- MODULE Spec2Model ----
(***************************************************************************)
(* Model of onnxruntime/python/tools/bert/benchmark.py: the benchmark      *)
(* grid runners (run_onnxruntime, run_pytorch), the orchestration in main  *)
(* and the report writers (output_summary, output_details,                 *)
(* output_fusion_statistics).                                              *)
(*                                                                         *)
(* The external collaborators (model export, graph optimization, session   *)
(* creation, inference) are opaque: each call is a nondeterministic choice *)
(* over the outcomes the caller distinguishes (a value, None, an           *)
(* exception).  A measured latency is an opaque value; the model tags      *)
(* every successful timing with a fresh tick of a clock, so that two       *)
(* records never share a latency by accident.                              *)
(***************************************************************************)
EXTENDS Integers, Sequences, FiniteSets, TLC

(***************************************************************************)
(* Bounds of the model.                                                    *)
(***************************************************************************)
\* Total number of values in the five list arguments of the command line
\* (--models, --engines, --input_counts, --batch_sizes, --sequence_lengths).
MaxArgs == 6

(***************************************************************************)
(* Values the command line arguments are drawn from.                       *)
(***************************************************************************)
ModelChoices == {"bert-base-cased", "xlnet-base-cased"}
EngineChoices == {"onnxruntime", "torch", "torchscript"}
InputCountChoices == {1, 2}
BatchChoices == {0, 1}
SeqChoices == {8, 1024}
TestTimesChoices == {0, 1}

\* MODELS[model_name][0]: the input names of a pretrained model.
MODELS ==
  [m \in ModelChoices |->
     IF m = "bert-base-cased"
       THEN <<"input_ids", "attention_mask", "token_type_ids">>
       ELSE <<"input_ids">>]

\* tokenizer.max_model_input_sizes[model_name]: the maximum input length the
\* tokenizer publishes for a model; xlnet publishes None (no maximum).
max_model_input_sizes ==
  [m \in ModelChoices |->
     IF m = "bert-base-cased"
       THEN [known |-> TRUE, size |-> 512]
       ELSE [known |-> FALSE, size |-> 0]]

\* The order in which main runs the engines.
EngineOrder == <<"torchscript", "torch", "onnxruntime">>

(***************************************************************************)
(* Helpers on sequences.                                                   *)
(***************************************************************************)
Range(q) == {q[i] : i \in DOMAIN q}

\* Python's bool rendered as the value the csv module writes.
PyBool(b) == IF b THEN "True" ELSE "False"

VARIABLES
  args,             \* the parsed command line (argparse namespace)
  pc,               \* control position of the process
  step,             \* the engine main is at, or "report"
  pos,              \* loop indices <<model, input count, batch, sequence>>
  local,            \* the results list local to the running grid runner
  results,          \* main's accumulated results
  optimize_model_statistics, \* keys of the global dict, in insertion order
  files,            \* artifact files present on disk
  torch_available,  \* is_torch_available()
  called,           \* engines whose grid runner main has called
  unsupported,      \* engines that returned at the GPU precondition check
  events,           \* history: inference attempts, raises, unusable pairs
  clock,            \* ticks of successful timings (the latency tag)
  reports,          \* which reports main wrote, and the summary's rows
  invocation,       \* which invocation of the program this process is
  produced,         \* history: the artifacts written to disk, by invocation
  fused_operator_statistics, \* the values of optimize_model_statistics
  fusion_csv        \* the file output_fusion_statistics writes

vars == <<args, pc, step, pos, local, results, optimize_model_statistics,
          files, torch_available, called, unsupported, events, clock, reports,
          invocation, produced, fused_operator_statistics, fusion_csv>>

(***************************************************************************)
(* parse_arguments: every list is non-empty (nargs="+").                   *)
(***************************************************************************)
ArgLens ==
  {l \in [1..5 -> 1..(MaxArgs - 4)] : l[1] + l[2] + l[3] + l[4] + l[5] <= MaxArgs}

parse_arguments ==
  UNION {[models : [1..l[1] -> ModelChoices],
          engines : [1..l[2] -> EngineChoices],
          input_counts : [1..l[3] -> InputCountChoices],
          batch_sizes : [1..l[4] -> BatchChoices],
          sequence_lengths : [1..l[5] -> SeqChoices],
          test_times : TestTimesChoices,
          use_gpu : BOOLEAN,
          fp16 : BOOLEAN,
          optimize_onnx : BOOLEAN,
          validate_onnx : BOOLEAN] : l \in ArgLens}

NoReports ==
  [fusion |-> FALSE, detail |-> FALSE, summary |-> FALSE,
   header |-> <<>>, rows |-> <<>>, error |-> ""]

\* The fusion statistics file before output_fusion_statistics opens it.
NoCsv == [written |-> FALSE, header |-> <<>>, rows |-> <<>>, error |-> ""]

Init ==
  /\ args \in parse_arguments
  /\ pc = "parse"
  /\ step = "start"
  /\ pos = <<1, 1, 1, 1>>
  /\ local = <<>>
  /\ results = <<>>
  /\ optimize_model_statistics = <<>>
  /\ files = {}
  /\ torch_available = FALSE
  /\ called = {}
  /\ unsupported = {}
  /\ events = {}
  /\ clock = 0
  /\ reports = NoReports
  /\ invocation = 1
  /\ produced = <<>>
  /\ fused_operator_statistics = <<>>
  /\ fusion_csv = NoCsv

(***************************************************************************)
(* main, lines 549-570: which engine runs next.                            *)
(***************************************************************************)
Enabled(e) == e \in Range(args.engines)

RECURSIVE FirstEnabledFrom(_)
FirstEnabledFrom(i) ==
  IF i > Len(EngineOrder) THEN "report"
  ELSE IF Enabled(EngineOrder[i]) THEN EngineOrder[i]
  ELSE FirstEnabledFrom(i + 1)

IndexOf(e) == CHOOSE i \in DOMAIN EngineOrder : EngineOrder[i] = e

NextStep(e) == FirstEnabledFrom(IndexOf(e) + 1)

(***************************************************************************)
(* main, lines 533-557: clear fp16 without GPU, return if a PyTorch engine *)
(* is selected and PyTorch is not installed.                               *)
(***************************************************************************)
\* main_start without lines 537-539: fp16 stays as the command line gave it.
main_start_keeping_fp16 ==
  /\ pc = "parse"
  /\ \E avail \in BOOLEAN :
       /\ torch_available' = avail
       /\ IF (Enabled("torch") \/ Enabled("torchscript")) /\ ~avail
            THEN /\ pc' = "done"
                 /\ step' = "return"
            ELSE /\ pc' = "main"
                 /\ step' = FirstEnabledFrom(1)
  /\ UNCHANGED <<args, pos, local, results, optimize_model_statistics, files,
                 called, unsupported, events, clock, reports>>
  /\ UNCHANGED <<invocation, produced, fused_operator_statistics, fusion_csv>>

main_start ==
  /\ pc = "parse"
  /\ args' = [args EXCEPT !.fp16 = args.fp16 /\ args.use_gpu]
  /\ \E avail \in BOOLEAN :
       /\ torch_available' = avail
       /\ IF (Enabled("torch") \/ Enabled("torchscript")) /\ ~avail
            THEN /\ pc' = "done"
                 /\ step' = "return"
            ELSE /\ pc' = "main"
                 /\ step' = FirstEnabledFrom(1)
  /\ UNCHANGED <<pos, local, results, optimize_model_statistics, files,
                 called, unsupported, events, clock, reports>>
  /\ UNCHANGED <<invocation, produced, fused_operator_statistics, fusion_csv>>

(***************************************************************************)
(* timeit.repeat(stmt, number=1, repeat=n): one timing per repetition, none *)
(* when n <= 0.  Every timing of one call carries the call's clock tick.    *)
(***************************************************************************)
timeit_repeat(n, tick) == [i \in 1..n |-> tick]

RECURSIVE sum(_)
sum(q) == IF q = <<>> THEN 0 ELSE Head(q) + sum(Tail(q))

\* get_latency_result, lines 241-254.  len(runtimes) = 0 divides by zero.
\* Of the statistics only test_times and average_latency_ms are kept.
get_latency_result(runtimes, batch_size) ==
  IF Len(runtimes) = 0
    THEN [raised |-> TRUE, test_times |-> 0, average_latency_ms |-> ""]
    ELSE [raised |-> FALSE,
          test_times |-> Len(runtimes),
          average_latency_ms |-> ToString(sum(runtimes) \div Len(runtimes))]

\* The result dict of run_pytorch, lines 368-379.
pytorch_result(torchscript, model_name, batch_size, sequence_length, stat) ==
  [engine |-> IF torchscript THEN "torchscript" ELSE "torch",
   version |-> "torch.__version__",
   device |-> IF args.use_gpu THEN "cuda" ELSE "cpu",
   optimize |-> "",
   fp16 |-> PyBool(args.fp16),
   model_name |-> model_name,
   inputs |-> 1,
   batch_size |-> batch_size,
   sequence_length |-> sequence_length,
   test_times |-> stat.test_times,
   average_latency_ms |-> stat.average_latency_ms]

\* onnxruntime_result with the device decided per combination: long
\* sequences are reported as run on the cpu.
onnxruntime_result_device_per_combination(model_name, num_inputs, batch_size, sequence_length, stat) ==
  [engine |-> "onnxruntime",
   version |-> "onnxruntime.__version__",
   device |-> IF args.use_gpu /\ sequence_length <= 8 THEN "cuda" ELSE "cpu",
   optimize |-> PyBool(args.optimize_onnx),
   fp16 |-> PyBool(args.fp16),
   model_name |-> model_name,
   inputs |-> num_inputs,
   batch_size |-> batch_size,
   sequence_length |-> sequence_length,
   test_times |-> stat.test_times,
   average_latency_ms |-> stat.average_latency_ms]

\* The result dict of run_onnxruntime, lines 302-314.
onnxruntime_result(model_name, num_inputs, batch_size, sequence_length, stat) ==
  [engine |-> "onnxruntime",
   version |-> "onnxruntime.__version__",
   device |-> IF args.use_gpu THEN "cuda" ELSE "cpu",
   optimize |-> PyBool(args.optimize_onnx),
   fp16 |-> PyBool(args.fp16),
   model_name |-> model_name,
   inputs |-> num_inputs,
   batch_size |-> batch_size,
   sequence_length |-> sequence_length,
   test_times |-> stat.test_times,
   average_latency_ms |-> stat.average_latency_ms]

\* skip_batch_size with the comparison off by one: a zero batch size runs.
skip_batch_size_negative_only(batch_size) == batch_size < 0

\* Lines 290 and 340: a batch size the grid skips.
skip_batch_size(batch_size) == batch_size <= 0

\* Lines 293 and 348: a sequence length the grid skips.
skip_sequence_length(sequence_length, max_length) ==
  max_length.known /\ sequence_length > max_length.size

\* Line 274: an input count the model has no input names for.
skip_num_inputs(num_inputs, all_input_names) == num_inputs > Len(all_input_names)

\* History kept for the properties: "attempt" a combination reached its
\* inference, "raise" the inference raised, "zero_division"
\* get_latency_result raised, "export_raise" the export raised, "invalid" and
\* "none" a pair had no usable session, "abort" an exception left the runner.
Event(kind, engine, p) == [kind |-> kind, engine |-> engine, pos |-> p]

(***************************************************************************)
(* run_pytorch, lines 321-386.                                             *)
(***************************************************************************)
\* torch.cuda.is_available() answers the same to both PyTorch engines.
TorchCudaAnswers ==
  IF called \cap {"torch", "torchscript"} = {} THEN BOOLEAN
  ELSE {(called \cap {"torch", "torchscript"}) \cap unsupported = {}}

\* call_run_pytorch with main giving up on the first engine that has no GPU
\* support: the engines after it are not run.
call_run_pytorch_giving_up ==
  /\ pc = "main"
  /\ step \in {"torchscript", "torch"}
  /\ called' = called \cup {step}
  /\ \E cuda \in (IF args.use_gpu THEN TorchCudaAnswers ELSE {TRUE}) :
       IF args.use_gpu /\ ~cuda
         THEN /\ unsupported' = unsupported \cup {step}
              /\ step' = "report"
              /\ UNCHANGED <<pc, pos, local>>
         ELSE /\ pc' = "run_pytorch"
              /\ pos' = <<1, 0, 1, 1>>
              /\ local' = <<>>
              /\ UNCHANGED <<unsupported, step>>
  /\ UNCHANGED <<args, results, optimize_model_statistics, files,
                 torch_available, events, clock, reports>>
  /\ UNCHANGED <<invocation, produced, fused_operator_statistics, fusion_csv>>

\* Lines 323-326 and main's call, lines 562-568: the GPU precondition.
call_run_pytorch ==
  /\ pc = "main"
  /\ step \in {"torchscript", "torch"}
  /\ called' = called \cup {step}
  /\ \E cuda \in (IF args.use_gpu THEN TorchCudaAnswers ELSE {TRUE}) :
       IF args.use_gpu /\ ~cuda
         THEN /\ unsupported' = unsupported \cup {step}
              /\ step' = NextStep(step)
              /\ UNCHANGED <<pc, pos, local>>
         ELSE /\ pc' = "run_pytorch"
              /\ pos' = <<1, 0, 1, 1>>
              /\ local' = <<>>
              /\ UNCHANGED <<unsupported, step>>
  /\ UNCHANGED <<args, results, optimize_model_statistics, files,
                 torch_available, events, clock, reports>>
  /\ UNCHANGED <<invocation, produced, fused_operator_statistics, fusion_csv>>

\* The loop indices after the iteration at p: next sequence length, next
\* batch size, next model; <<0, 0, 0, 0>> when the loops are over.
PyNextSeq(p) ==
  IF p[4] < Len(args.sequence_lengths) THEN <<p[1], 0, p[3], p[4] + 1>>
  ELSE IF p[3] < Len(args.batch_sizes) THEN <<p[1], 0, p[3] + 1, 1>>
  ELSE IF p[1] < Len(args.models) THEN <<p[1] + 1, 0, 1, 1>>
  ELSE <<0, 0, 0, 0>>

PyNextBatch(p) ==
  IF p[3] < Len(args.batch_sizes) THEN <<p[1], 0, p[3] + 1, 1>>
  ELSE IF p[1] < Len(args.models) THEN <<p[1] + 1, 0, 1, 1>>
  ELSE <<0, 0, 0, 0>>

\* Continue the loops at q with the local results l, or return l to main,
\* which appends it to results (results += run_pytorch(...)).
PyContinue(q, l) ==
  IF q = <<0, 0, 0, 0>>
    THEN /\ results' = results \o l
         /\ local' = <<>>
         /\ pos' = <<1, 1, 1, 1>>
         /\ pc' = "main"
         /\ step' = NextStep(step)
    ELSE /\ pos' = q
         /\ local' = l
         /\ UNCHANGED <<results, pc, step>>

\* An exception run_pytorch does not catch leaves main as well.
PyCrash ==
  /\ pc' = "crashed"
  /\ local' = <<>>
  /\ UNCHANGED <<results, pos, step>>

\* One iteration of the loops of lines 339-384.
run_pytorch_step ==
  /\ pc = "run_pytorch"
  /\ LET model_name == args.models[pos[1]]
         batch_size == args.batch_sizes[pos[3]]
         sequence_length == args.sequence_lengths[pos[4]]
         max_input_size == max_model_input_sizes[model_name]
     IN
     IF skip_batch_size(batch_size)
       THEN /\ PyContinue(PyNextBatch(pos), local)
            /\ UNCHANGED <<events, clock>>
     ELSE IF skip_sequence_length(sequence_length, max_input_size)
       THEN /\ PyContinue(PyNextSeq(pos), local)
            /\ UNCHANGED <<events, clock>>
     ELSE
       \E outcome \in {"ok", "RuntimeError", "error"} :
         CASE outcome = "ok" ->
                LET stat == get_latency_result(
                              timeit_repeat(args.test_times, clock + 1), batch_size)
                IN
                /\ events' = events \cup {Event("attempt", step, pos)} \cup
                              (IF stat.raised
                                 THEN {Event("zero_division", step, pos),
                                       Event("abort", step, pos)}
                                 ELSE {})
                /\ IF stat.raised
                     THEN PyCrash /\ UNCHANGED clock
                     ELSE /\ clock' = clock + 1
                          /\ PyContinue(PyNextSeq(pos),
                                 Append(local,
                                   pytorch_result(step = "torchscript", model_name,
                                                  batch_size, sequence_length, stat)))
           [] outcome = "RuntimeError" ->
                /\ events' = events \cup {Event("attempt", step, pos),
                                           Event("raise", step, pos)}
                /\ PyContinue(PyNextSeq(pos), local)
                /\ UNCHANGED clock
           [] outcome = "error" ->
                /\ events' = events \cup {Event("attempt", step, pos),
                                           Event("raise", step, pos),
                                           Event("abort", step, pos)}
                /\ PyCrash
                /\ UNCHANGED clock
  /\ UNCHANGED <<args, optimize_model_statistics, files, torch_available,
                 called, unsupported, reports>>
  /\ UNCHANGED <<invocation, produced, fused_operator_statistics, fusion_csv>>

(***************************************************************************)
(* export_onnx_model and optimize_onnx_model, lines 162-238.  A file name  *)
(* is the sequence of the parts it is formatted from.                      *)
(***************************************************************************)
\* "{}_{}.onnx".format(model_name, str(len(input_names))), line 208.
onnx_model_filename(model_name, num_inputs) ==
  <<model_name, "_", ToString(num_inputs), ".onnx">>

\* str.replace on the parts of a name.
replace(name, old, new) ==
  [i \in DOMAIN name |-> IF name[i] = old THEN new ELSE name[i]]

\* Line 163.
optimized_model_filename(name, fp16) ==
  replace(name, ".onnx", IF fp16 THEN "_fp16.onnx" ELSE "_fp32.onnx")

\* dict[key] = value on the insertion-ordered keys of a dict.
SetKey(keys, k) == IF k \in Range(keys) THEN keys ELSE Append(keys, k)

\* An artifact a step wrote to disk.
Written(step_name, name) == [step |-> step_name, name |-> name]

\* optimize_onnx_model without the test of line 164: the model is optimized
\* and saved whether or not the optimized file exists.
optimize_onnx_model_again(name, fp16, stats, disk) ==
  LET optimized == optimized_model_filename(name, fp16) IN
  [name |-> optimized,
   stats |-> SetKey(SetKey(stats, name), optimized),
   disk |-> disk \cup {optimized},
   written |-> <<Written("optimize", optimized)>>]

\* optimize_onnx_model, lines 162-188: the keys of optimize_model_statistics
\* and the files on disk after the call, and the artifact the call wrote.
optimize_onnx_model(name, fp16, stats, disk) ==
  LET optimized == optimized_model_filename(name, fp16) IN
  IF optimized \notin disk
    THEN [name |-> optimized,
          stats |-> SetKey(SetKey(stats, name), optimized),
          disk |-> disk \cup {optimized},
          written |-> <<Written("optimize", optimized)>>]
    ELSE [name |-> optimized, stats |-> stats, disk |-> disk, written |-> <<>>]

\* export_onnx_model, lines 208-238, when no collaborator raises: the model
\* is exported unless its file exists (line 209), then optimized on request
\* (line 230).
export_onnx_model(model_name, num_inputs) ==
  LET name == onnx_model_filename(model_name, num_inputs)
      disk == files \cup {name}
      exported == IF name \in files THEN <<>> ELSE <<Written("export", name)>>
      optimized == optimize_onnx_model(name, args.fp16, optimize_model_statistics, disk)
  IN IF args.optimize_onnx \/ args.fp16
       THEN [optimized EXCEPT !.written = exported \o optimized.written]
       ELSE [name |-> name, stats |-> optimize_model_statistics, disk |-> disk,
             written |-> exported]

\* The artifacts a call wrote, as entries of the history: each with the
\* invocation that wrote it.
Stamp(written) ==
  [i \in DOMAIN written |->
     [invocation |-> invocation, step |-> written[i].step, name |-> written[i].name]]

\* What preparing one (model, input count) pair can come to: a usable
\* session, an invalid model (only validation finds one), a session that
\* fails to load (None), or an exception of the export.
PairOutcomes ==
  {"ok", "none", "raise"} \cup (IF args.validate_onnx THEN {"invalid"} ELSE {})

\* usable_session without the test of line 286: a None session is used.
usable_session_unchecked(outcome) == outcome \in {"ok", "none"}

\* Lines 282-287: the pair is benchmarked only with a valid model and a
\* session that loaded.
usable_session(outcome) == outcome = "ok"

(***************************************************************************)
(* run_onnxruntime, lines 257-318.                                         *)
(***************************************************************************)
\* Lines 261-266 and main's call, lines 570-574: the GPU precondition.
call_run_onnxruntime ==
  /\ pc = "main"
  /\ step = "onnxruntime"
  /\ called' = called \cup {step}
  /\ \E cuda \in (IF args.use_gpu THEN BOOLEAN ELSE {TRUE}) :
       IF args.use_gpu /\ ~cuda
         THEN /\ unsupported' = unsupported \cup {step}
              /\ step' = NextStep(step)
              /\ UNCHANGED <<pc, pos, local>>
         ELSE /\ pc' = "run_onnxruntime"
              /\ pos' = <<1, 1, 1, 1>>
              /\ local' = <<>>
              /\ UNCHANGED <<unsupported, step>>
  /\ UNCHANGED <<args, results, optimize_model_statistics, files,
                 torch_available, events, clock, reports>>
  /\ UNCHANGED <<invocation, produced, fused_operator_statistics, fusion_csv>>

OrtNextPair(p) ==
  IF p[2] < Len(args.input_counts) THEN <<p[1], p[2] + 1, 1, 1>>
  ELSE IF p[1] < Len(args.models) THEN <<p[1] + 1, 1, 1, 1>>
  ELSE <<0, 0, 0, 0>>

OrtNextBatch(p) ==
  IF p[3] < Len(args.batch_sizes) THEN <<p[1], p[2], p[3] + 1, 1>>
  ELSE OrtNextPair(p)

OrtNextSeq(p) ==
  IF p[4] < Len(args.sequence_lengths) THEN <<p[1], p[2], p[3], p[4] + 1>>
  ELSE OrtNextBatch(p)

\* Continue the loops at q, or return the local results to main, which
\* appends them to results (results += run_onnxruntime(...)).
OrtContinue(q, l) ==
  IF q = <<0, 0, 0, 0>>
    THEN /\ results' = results \o l
         /\ local' = <<>>
         /\ pos' = <<1, 1, 1, 1>>
         /\ pc' = "main"
         /\ step' = NextStep(step)
    ELSE /\ pos' = q
         /\ local' = l
         /\ pc' = IF q[1] = pos[1] /\ q[2] = pos[2]
                    THEN "run_onnxruntime_grid" ELSE "run_onnxruntime"
         /\ UNCHANGED <<results, step>>

\* An exception leaves run_onnxruntime; main's bare except (lines 571-576)
\* logs it, and the += of line 572 never happens.
OrtRaise ==
  /\ pc' = "main"
  /\ step' = NextStep(step)
  /\ local' = <<>>
  /\ pos' = <<1, 1, 1, 1>>
  /\ UNCHANGED results

\* One iteration of the loop over input counts, lines 273-287.
run_onnxruntime_pair ==
  /\ pc = "run_onnxruntime"
  /\ LET model_name == args.models[pos[1]]
         num_inputs == args.input_counts[pos[2]]
         exported == export_onnx_model(model_name, num_inputs)
     IN
     IF skip_num_inputs(num_inputs, MODELS[model_name])
       THEN /\ OrtContinue(OrtNextPair(pos), local)
            /\ UNCHANGED <<optimize_model_statistics, files, produced, events>>
     ELSE IF ~torch_available \* torch.no_grad() without torch, line 279
       THEN /\ OrtRaise
            /\ events' = events \cup {Event("export_raise", step, pos),
                                       Event("abort", step, pos)}
            /\ UNCHANGED <<optimize_model_statistics, files, produced>>
     ELSE
       \E outcome \in PairOutcomes :
         CASE outcome = "raise" ->
                /\ OrtRaise
                /\ events' = events \cup {Event("export_raise", step, pos),
                                           Event("abort", step, pos)}
                /\ UNCHANGED <<optimize_model_statistics, files, produced>>
           [] outcome # "raise" ->
                /\ optimize_model_statistics' = exported.stats
                /\ files' = exported.disk
                /\ produced' = produced \o Stamp(exported.written)
                /\ events' = events \cup (IF outcome \in {"invalid", "none"}
                                            THEN {Event(outcome, step, pos)} ELSE {})
                /\ IF usable_session(outcome)
                     THEN /\ pc' = "run_onnxruntime_grid"
                          /\ UNCHANGED <<pos, local, results, step>>
                     ELSE OrtContinue(OrtNextPair(pos), local)
  /\ UNCHANGED <<args, torch_available, called, unsupported, clock, reports>>
  /\ UNCHANGED <<invocation, fused_operator_statistics, fusion_csv>>

\* One iteration of the loops of lines 289-316.
run_onnxruntime_step ==
  /\ pc = "run_onnxruntime_grid"
  /\ LET model_name == args.models[pos[1]]
         num_inputs == args.input_counts[pos[2]]
         batch_size == args.batch_sizes[pos[3]]
         sequence_length == args.sequence_lengths[pos[4]]
         max_sequence_length == max_model_input_sizes[model_name]
     IN
     IF skip_batch_size(batch_size)
       THEN /\ OrtContinue(OrtNextBatch(pos), local)
            /\ UNCHANGED <<events, clock>>
     ELSE IF skip_sequence_length(sequence_length, max_sequence_length)
       THEN /\ OrtContinue(OrtNextSeq(pos), local)
            /\ UNCHANGED <<events, clock>>
     ELSE
       \E outcome \in {"ok"} \cup (IF args.test_times > 0 THEN {"raise"} ELSE {}) :
         CASE outcome = "ok" ->
                LET stat == get_latency_result(
                              timeit_repeat(args.test_times, clock + 1), batch_size)
                IN
                /\ events' = events \cup {Event("attempt", step, pos)} \cup
                              (IF stat.raised
                                 THEN {Event("zero_division", step, pos),
                                       Event("abort", step, pos)}
                                 ELSE {})
                /\ IF stat.raised
                     THEN OrtRaise /\ UNCHANGED clock
                     ELSE /\ clock' = clock + 1
                          /\ OrtContinue(OrtNextSeq(pos),
                                 Append(local,
                                   onnxruntime_result(model_name, num_inputs, batch_size,
                                                      sequence_length, stat)))
           [] outcome = "raise" ->
                /\ events' = events \cup {Event("attempt", step, pos),
                                           Event("raise", step, pos),
                                           Event("abort", step, pos)}
                /\ OrtRaise
                /\ UNCHANGED clock
  /\ UNCHANGED <<args, optimize_model_statistics, files, torch_available,
                 called, unsupported, reports>>
  /\ UNCHANGED <<invocation, produced, fused_operator_statistics, fusion_csv>>

(***************************************************************************)
(* output_summary, lines 405-434.  A dict row is a function from column    *)
(* names to cell values; a written line is what csv.DictWriter makes of it. *)
(***************************************************************************)
header_names ==
  <<"model_name", "inputs", "engine", "version", "device", "fp16", "optimize">>

\* f"b{batch_size}_s{sequence_length}", lines 411 and 431.
column_name(batch_size, sequence_length) ==
  "b" \o ToString(batch_size) \o "_s" \o ToString(sequence_length)

\* Lines 408-411: one name per batch size and sequence length, batch major.
data_names ==
  [i \in 1..(Len(args.batch_sizes) * Len(args.sequence_lengths)) |->
     column_name(args.batch_sizes[((i - 1) \div Len(args.sequence_lengths)) + 1],
                 args.sequence_lengths[((i - 1) % Len(args.sequence_lengths)) + 1])]

fieldnames == header_names \o data_names

\* The value of a header field of a result, as the csv module writes it.
HeaderValue(result, k) ==
  CASE k = "model_name" -> result.model_name
    [] k = "inputs" -> ToString(result.inputs)
    [] k = "engine" -> result.engine
    [] k = "version" -> result.version
    [] k = "device" -> result.device
    [] k = "fp16" -> result.fp16
    [] k = "optimize" -> result.optimize

\* Line 422.
headers(result) == [k \in Range(header_names) |-> HeaderValue(result, k)]

\* summary_row with batch size and sequence length exchanged in the name
\* of the cell a result is written to.
RECURSIVE summary_row_exchanged(_, _, _, _, _)
summary_row_exchanged(i, row, model_name, input_count, engine_name) ==
  IF i > Len(results) THEN [row |-> row, failed |-> FALSE]
  ELSE
    LET result == results[i] IN
    IF result.model_name = model_name /\ result.inputs = input_count
         /\ result.engine = engine_name
      THEN
        LET started == IF DOMAIN row = {}
                         THEN headers(result) @@ [k \in Range(data_names) |-> ""]
                         ELSE row
            cell == column_name(result.sequence_length, result.batch_size)
        IN IF \E k \in Range(header_names) : started[k] # headers(result)[k]
             THEN [row |-> started, failed |-> TRUE]
             ELSE summary_row_exchanged(i + 1,
                              (cell :> result.average_latency_ms) @@ started,
                              model_name, input_count, engine_name)
      ELSE summary_row_exchanged(i + 1, row, model_name, input_count, engine_name)

\* Lines 419-431: the row of one (model, input count, engine) after the
\* results from index i on; failed when the assertion of line 428 fails.
RECURSIVE summary_row(_, _, _, _, _)
summary_row(i, row, model_name, input_count, engine_name) ==
  IF i > Len(results) THEN [row |-> row, failed |-> FALSE]
  ELSE
    LET result == results[i] IN
    IF result.model_name = model_name /\ result.inputs = input_count
         /\ result.engine = engine_name
      THEN
        LET started == IF DOMAIN row = {}
                         THEN headers(result) @@ [k \in Range(data_names) |-> ""]
                         ELSE row
            cell == column_name(result.batch_size, result.sequence_length)
        IN IF \E k \in Range(header_names) : started[k] # headers(result)[k]
             THEN [row |-> started, failed |-> TRUE]
             ELSE summary_row(i + 1, (cell :> result.average_latency_ms) @@ started,
                              model_name, input_count, engine_name)
      ELSE summary_row(i + 1, row, model_name, input_count, engine_name)

\* The (model, input count, engine) of the i-th iteration of the loops of
\* lines 415-417; the input counts are the fixed list [1, 2, 3].
summary_count == Len(args.models) * 3 * Len(args.engines)

summary_triple(i) ==
  [model_name |-> args.models[((i - 1) \div (3 * Len(args.engines))) + 1],
   inputs |-> (((i - 1) \div Len(args.engines)) % 3) + 1,
   engine |-> args.engines[((i - 1) % Len(args.engines)) + 1]]

\* csv.DictWriter.writerow: a key outside fieldnames is a ValueError, a
\* missing key is written as the empty string.
writerow(row) ==
  [raised |-> DOMAIN row \ Range(fieldnames) # {},
   line |-> [i \in DOMAIN fieldnames |->
               IF fieldnames[i] \in DOMAIN row THEN row[fieldnames[i]] ELSE ""]]

\* The lines output_summary writes after the header from the i-th iteration
\* on, and the exception that ended it, if any.
RECURSIVE output_summary(_, _)
output_summary(i, lines) ==
  IF i > summary_count THEN [lines |-> lines, error |-> ""]
  ELSE
    LET t == summary_triple(i)
        r == summary_row(1, <<>>, t.model_name, t.inputs, t.engine)
        w == writerow(r.row)
    IN IF r.failed THEN [lines |-> lines, error |-> "AssertionError"]
       ELSE IF w.raised THEN [lines |-> lines, error |-> "ValueError"]
       ELSE output_summary(i + 1, Append(lines, w.line))

\* main_report with the return on empty results placed before the fusion
\* report.
main_report_empty_first ==
  /\ pc = "main"
  /\ step = "report"
  /\ LET fusion == optimize_model_statistics # <<>>
         summary == output_summary(1, <<>>)
     IN
     IF Len(results) = 0
       THEN /\ reports' = NoReports
            /\ pc' = "done"
       ELSE /\ reports' = [fusion |-> fusion, detail |-> TRUE, summary |-> TRUE,
                           header |-> fieldnames, rows |-> summary.lines,
                           error |-> summary.error]
            /\ pc' = IF summary.error # "" THEN "crashed" ELSE "done"
  /\ UNCHANGED <<args, step, pos, local, results, optimize_model_statistics,
                 files, torch_available, called, unsupported, events, clock>>
  /\ UNCHANGED <<invocation, produced, fused_operator_statistics, fusion_csv>>

(***************************************************************************)
(* main, lines 578-591: the reports.                                       *)
(***************************************************************************)
main_report ==
  /\ pc = "main"
  /\ step = "report"
  /\ LET fusion == optimize_model_statistics # <<>>
         summary == output_summary(1, <<>>)
     IN
     IF Len(results) = 0
       THEN /\ reports' = [NoReports EXCEPT !.fusion = fusion]
            /\ pc' = "done"
       ELSE /\ reports' = [fusion |-> fusion, detail |-> TRUE, summary |-> TRUE,
                           header |-> fieldnames, rows |-> summary.lines,
                           error |-> summary.error]
            /\ pc' = IF summary.error # "" THEN "crashed" ELSE "done"
  /\ UNCHANGED <<args, step, pos, local, results, optimize_model_statistics,
                 files, torch_available, called, unsupported, events, clock>>
  /\ UNCHANGED <<invocation, produced, fused_operator_statistics, fusion_csv>>

Next ==
  \/ main_start
  \/ call_run_pytorch
  \/ run_pytorch_step
  \/ call_run_onnxruntime
  \/ run_onnxruntime_pair
  \/ run_onnxruntime_step
  \/ main_report

Spec == Init /\ [][Next]_vars

(***************************************************************************)
(* The runs whose command line gives --fp16, with or without --use_gpu.    *)
(***************************************************************************)
InitFp16 == Init /\ args.fp16

SpecFp16 == InitFp16 /\ [][Next]_vars

(***************************************************************************)
(* output_fusion_statistics, lines 437-445, on its own: the dict it is     *)
(* given is drawn from the dicts optimize_onnx_model can leave behind.     *)
(* Spec does not follow the values of optimize_model_statistics, which     *)
(* nothing but this report reads: there reports.fusion records the call,   *)
(* here fusion_csv its effect.                                             *)
(***************************************************************************)
\* Number of entries of optimize_model_statistics.
MaxEntries == 2

\* The optimization passes a model can report, in the order a mapping of
\* pass counts lists them, and the counts.
PassNames == <<"Attention", "Gelu">>
FusedCountChoices == {0, 1}

\* opt_model.get_fused_operator_statistics(): a mapping from the names of
\* passes to the number of times each was applied.
get_fused_operator_statistics ==
  UNION {[S -> FusedCountChoices] : S \in SUBSET Range(PassNames)}

\* list(d.keys()) of a mapping of pass counts.
keys(d) == SelectSeq(PassNames, LAMBDA n : n \in DOMAIN d)

\* A file name as one string.
RECURSIVE Join(_)
Join(name) == IF name = <<>> THEN "" ELSE Head(name) \o Join(Tail(name))

\* Line 439: the columns are "model_filename" and the keys of the first
\* value of the dict.
column_names(values) == <<"model_filename">> \o keys(values[1])

\* Line 443: the value of an entry with its key added to it.
set_model_filename(key, value) ==
  [n \in DOMAIN value \cup {"model_filename"} |->
     IF n = "model_filename" THEN Join(key) ELSE value[n]]

\* csv.DictWriter.writerow on given columns: a key outside the columns is a
\* ValueError, a missing key is written as the empty string, a count as
\* its decimal digits.
fusion_writerow(row, columns) ==
  [raised |-> DOMAIN row \ Range(columns) # {},
   line |-> [i \in DOMAIN columns |->
               IF columns[i] \notin DOMAIN row THEN ""
               ELSE IF columns[i] = "model_filename" THEN row[columns[i]]
               ELSE ToString(row[columns[i]])]]

\* The file and the values of the dict after the loop of lines 442-444 from
\* the i-th entry on.
RECURSIVE output_fusion_statistics(_, _, _, _, _)
output_fusion_statistics(stats, values, columns, i, lines) ==
  LET row == set_model_filename(stats[i], values[i])
      w == fusion_writerow(row, columns)
      after == [values EXCEPT ![i] = row]
  IN IF i > Len(stats)
       THEN [values |-> values,
             csv |-> [written |-> TRUE, header |-> columns, rows |-> lines,
                      error |-> ""]]
     ELSE IF w.raised
       THEN [values |-> after,
             csv |-> [written |-> TRUE, header |-> columns, rows |-> lines,
                      error |-> "ValueError"]]
     ELSE output_fusion_statistics(stats, after, columns, i + 1, Append(lines, w.line))

\* The keys of optimize_model_statistics after the optimization of the two
\* input counts of a model, in insertion order.
StatisticsKeys ==
  LET first == optimize_onnx_model(onnx_model_filename("bert-base-cased", 1),
                                   FALSE, <<>>, {})
  IN optimize_onnx_model(onnx_model_filename("bert-base-cased", 2),
                         FALSE, first.stats, first.disk).stats

\* A command line that asks for the optimization.
FusionArguments ==
  [models |-> <<"bert-base-cased">>, engines |-> <<"onnxruntime">>,
   input_counts |-> <<1, 2>>, batch_sizes |-> <<1>>, sequence_lengths |-> <<8>>,
   test_times |-> 1, use_gpu |-> FALSE, fp16 |-> FALSE,
   optimize_onnx |-> TRUE, validate_onnx |-> FALSE]

\* main at line 579, with at least one entry in optimize_model_statistics.
InitFusion ==
  /\ args = FusionArguments
  /\ pc = "main"
  /\ step = "report"
  /\ pos = <<1, 1, 1, 1>>
  /\ local = <<>>
  /\ results = <<>>
  /\ \E n \in 1..MaxEntries :
       /\ optimize_model_statistics = SubSeq(StatisticsKeys, 1, n)
       /\ fused_operator_statistics \in [1..n -> get_fused_operator_statistics]
  /\ files = Range(optimize_model_statistics)
  /\ torch_available = TRUE
  /\ called = {"onnxruntime"}
  /\ unsupported = {}
  /\ events = {}
  /\ clock = 0
  /\ reports = NoReports
  /\ invocation = 1
  /\ produced = <<>>
  /\ fusion_csv = NoCsv

\* main, lines 579-581: the fusion report; a ValueError leaves main.
main_fusion_report ==
  /\ pc = "main"
  /\ step = "report"
  /\ Len(optimize_model_statistics) > 0
  /\ ~fusion_csv.written
  /\ LET out == output_fusion_statistics(
                  optimize_model_statistics, fused_operator_statistics,
                  column_names(fused_operator_statistics), 1, <<>>)
     IN /\ fusion_csv' = out.csv
        /\ fused_operator_statistics' = out.values
        /\ pc' = IF out.csv.error # "" THEN "crashed" ELSE pc
  /\ UNCHANGED <<args, step, pos, local, results, optimize_model_statistics,
                 files, torch_available, called, unsupported, events, clock,
                 reports, invocation, produced>>

NextFusion == main_fusion_report

SpecFusion == InitFusion /\ [][NextFusion]_vars

(***************************************************************************)
(* The program invoked again and again on one file system (lines 593-594): *)
(* every invocation is a new process, the files stay.  The invocations     *)
(* benchmark onnxruntime, the engine that exports and optimizes.           *)
(***************************************************************************)
\* Number of invocations.
MaxInvocations == 2

\* The command lines of the invocations: one model, one or two input counts.
RerunArguments ==
  [models : [1..1 -> ModelChoices],
   engines : {<<"onnxruntime">>},
   input_counts : [1..1 -> InputCountChoices] \cup [1..2 -> InputCountChoices],
   batch_sizes : {<<1>>},
   sequence_lengths : {<<8>>},
   test_times : {1},
   use_gpu : BOOLEAN,
   fp16 : BOOLEAN,
   optimize_onnx : BOOLEAN,
   validate_onnx : {FALSE}]

InitRerun ==
  /\ args \in RerunArguments
  /\ pc = "parse"
  /\ step = "start"
  /\ pos = <<1, 1, 1, 1>>
  /\ local = <<>>
  /\ results = <<>>
  /\ optimize_model_statistics = <<>>
  /\ files = {}
  /\ torch_available = FALSE
  /\ called = {}
  /\ unsupported = {}
  /\ events = {}
  /\ clock = 0
  /\ reports = NoReports
  /\ invocation = 1
  /\ produced = <<>>
  /\ fused_operator_statistics = <<>>
  /\ fusion_csv = NoCsv

\* The process has ended and the program is invoked again: the state of a
\* process starts anew, optimize_model_statistics (line 159) included.
main_again ==
  /\ pc \in {"done", "crashed"}
  /\ invocation < MaxInvocations
  /\ invocation' = invocation + 1
  /\ args' \in RerunArguments
  /\ pc' = "parse"
  /\ step' = "start"
  /\ pos' = <<1, 1, 1, 1>>
  /\ local' = <<>>
  /\ results' = <<>>
  /\ optimize_model_statistics' = <<>>
  /\ torch_available' = FALSE
  /\ called' = {}
  /\ unsupported' = {}
  /\ events' = {}
  /\ clock' = 0
  /\ reports' = NoReports
  /\ UNCHANGED <<files, produced, fused_operator_statistics, fusion_csv>>

NextRerun ==
  \/ main_start
  \/ call_run_onnxruntime
  \/ run_onnxruntime_pair
  \/ run_onnxruntime_step
  \/ main_report
  \/ main_again

SpecRerun == InitRerun /\ [][NextRerun]_vars

(***************************************************************************)
(* Vocabulary of the properties.                                           *)
(***************************************************************************)
Finished == pc \in {"done", "crashed"}

\* The loop positions of an engine's grid: run_pytorch has no input counts.
Positions(engine) ==
  {<<m, c, b, s>> : m \in DOMAIN args.models,
                    c \in (IF engine = "onnxruntime" THEN DOMAIN args.input_counts ELSE {0}),
                    b \in DOMAIN args.batch_sizes,
                    s \in DOMAIN args.sequence_lengths}

\* The RunKey of a record and of a grid position.
RunKey(r) ==
  <<r.model_name, r.inputs, r.batch_size, r.sequence_length, r.engine>>

KeyAt(engine, p) ==
  <<args.models[p[1]],
    IF p[2] = 0 THEN 1 ELSE args.input_counts[p[2]],
    args.batch_sizes[p[3]],
    args.sequence_lengths[p[4]],
    engine>>

\* The three skip rules of the grid, as the specification words them.
Valid(key) ==
  /\ key[2] <= Len(MODELS[key[1]])
  /\ key[3] > 0
  /\ (max_model_input_sizes[key[1]].known
        => key[4] <= max_model_input_sizes[key[1]].size)

Happened(kind, engine, p) == Event(kind, engine, p) \in events

\* A pair of run_onnxruntime whose session was unusable.
BadPair(p) ==
  \E e \in events : /\ e.kind \in {"invalid", "none"}
                     /\ e.pos[1] = p[1] /\ e.pos[2] = p[2]

AllRecords == Range(results) \cup Range(local)

(***************************************************************************)
(* C1: no record has a batch size <= 0, nor a sequence length above the    *)
(* model's maximum input length when that maximum is known, whatever the   *)
(* engine and the configuration.                                           *)
(***************************************************************************)
C1_RecordsWithinLimits ==
  \A r \in AllRecords :
    /\ r.batch_size > 0
    /\ (max_model_input_sizes[r.model_name].known
          => r.sequence_length <= max_model_input_sizes[r.model_name].size)

\* A finished run that skipped a batch size of 0 and still has a record.
C1_Witness ==
  /\ pc = "done"
  /\ 0 \in Range(args.batch_sizes)
  /\ results # <<>>

(***************************************************************************)
(* C2: an inference that raises in one combination costs that combination  *)
(* alone: the exception stays inside the grid runner and every other valid *)
(* combination of the engine has its record in the final results.          *)
(***************************************************************************)
C2_OnlyFailedCombinationLost ==
  pc = "done" =>
    \A e \in events :
      e.kind = "raise" =>
        /\ ~Happened("abort", e.engine, e.pos)
        /\ \A q \in Positions(e.engine) \ {e.pos} :
             (Valid(KeyAt(e.engine, q)) /\ ~BadPair(q))
               => \E i \in DOMAIN results : RunKey(results[i]) = KeyAt(e.engine, q)

(***************************************************************************)
(* C3: the accumulated results hold at most one record per RunKey          *)
(* (model_name, inputs, batch_size, sequence_length, engine), whatever     *)
(* lists the command line gives.                                           *)
(***************************************************************************)
C3_OneRecordPerRunKey ==
  \A i, j \in DOMAIN results :
    RunKey(results[i]) = RunKey(results[j]) => i = j

(***************************************************************************)
(* Vocabulary of the summary properties.                                   *)
(***************************************************************************)
Triple(r) == <<r.model_name, r.inputs, r.engine>>

TripleOfRow(i) ==
  <<summary_triple(i).model_name, summary_triple(i).inputs, summary_triple(i).engine>>

\* The batch size and the sequence length of the j-th pair of the
\* configured grid, batch sizes first.
GridBatch(j) == args.batch_sizes[((j - 1) \div Len(args.sequence_lengths)) + 1]

GridSeq(j) == args.sequence_lengths[((j - 1) % Len(args.sequence_lengths)) + 1]

GridSize == Len(args.batch_sizes) * Len(args.sequence_lengths)

\* The indices of the results of a triple with a batch size and a sequence
\* length.
CellRecords(triple, b, s) ==
  {k \in DOMAIN results : /\ Triple(results[k]) = triple
                          /\ results[k].batch_size = b
                          /\ results[k].sequence_length = s}

Last(S) == CHOOSE k \in S : \A n \in S : n <= k

(***************************************************************************)
(* C4: the summary holds exactly one data row per (model, input count,     *)
(* engine) triple that occurs in the results and no row for a triple       *)
(* without a record.                                                       *)
(***************************************************************************)
C4_OneRowPerPresentTriple ==
  (reports.summary /\ reports.error = "") =>
    Len(reports.rows) = Cardinality({Triple(r) : r \in Range(results)})

(***************************************************************************)
(* C5: in every summary row of a triple that has records the data columns  *)
(* are the names b{batch}_s{seq} of the configured grid, the cell of a     *)
(* combination with a record holds that record's average latency, the cell *)
(* of a configured combination without a record is written blank, and no   *)
(* record is written to a column outside the grid.                         *)
(***************************************************************************)
C5_SummaryCells ==
  reports.summary =>
    /\ reports.error # "ValueError"
    /\ Len(reports.header) = Len(header_names) + GridSize
    /\ \A j \in 1..GridSize :
         reports.header[Len(header_names) + j]
           = "b" \o ToString(GridBatch(j)) \o "_s" \o ToString(GridSeq(j))
    /\ \A i \in DOMAIN reports.rows :
         (\E r \in Range(results) : Triple(r) = TripleOfRow(i)) =>
           /\ Len(reports.rows[i]) = Len(header_names) + GridSize
           /\ \A j \in 1..GridSize :
                LET found == CellRecords(TripleOfRow(i), GridBatch(j), GridSeq(j))
                IN reports.rows[i][Len(header_names) + j]
                     = IF found = {} THEN ""
                       ELSE results[Last(found)].average_latency_ms

\* A written summary row with a filled cell and a blank cell.
C5_Witness ==
  /\ pc = "done"
  /\ reports.summary
  /\ \E i \in DOMAIN reports.rows :
       \E j, k \in 1..GridSize :
         /\ reports.rows[i][Len(header_names) + j] = ""
         /\ reports.rows[i][Len(header_names) + k] # ""

(***************************************************************************)
(* C6: the records that contribute to one summary row (same model_name,    *)
(* inputs and engine) agree on every identifying field, so the assertion   *)
(* of output_summary never fails.                                          *)
(***************************************************************************)
C6_RowRecordsAgree ==
  /\ reports.error # "AssertionError"
  /\ \A r1, r2 \in Range(results) :
       Triple(r1) = Triple(r2) =>
         /\ r1.version = r2.version
         /\ r1.device = r2.device
         /\ r1.fp16 = r2.fp16
         /\ r1.optimize = r2.optimize

\* A summary written from two onnxruntime records of one triple that
\* differ in their sequence length, on the GPU.
C6_Witness ==
  /\ pc = "done"
  /\ reports.summary
  /\ args.use_gpu
  /\ \E i, j \in DOMAIN results :
       /\ Triple(results[i]) = Triple(results[j])
       /\ results[i].engine = "onnxruntime"
       /\ results[i].sequence_length < results[j].sequence_length

(***************************************************************************)
(* C7: at the end of main, empty results mean that neither the detail nor  *)
(* the summary report was written, and a non-empty                         *)
(* optimize_model_statistics means that the fusion report was written,     *)
(* with or without records and whether or not run_onnxruntime raised.      *)
(***************************************************************************)
C7_ReportsAtExit ==
  Finished =>
    /\ (results = <<>> => ~reports.detail /\ ~reports.summary)
    /\ (optimize_model_statistics # <<>> => reports.fusion)

\* A finished run without records, whose run_onnxruntime raised after an
\* optimization was recorded, and which wrote the fusion report.
C7_Witness ==
  /\ pc = "done"
  /\ results = <<>>
  /\ optimize_model_statistics # <<>>
  /\ reports.fusion
  /\ \E e \in events : e.kind = "abort" /\ e.engine = "onnxruntime"

(***************************************************************************)
(* C8: an engine without the requested GPU support contributes no record   *)
(* and attempts no combination, every other selected engine is still run,  *)
(* and the records of the other engines are kept.                          *)
(***************************************************************************)
Aborted(engine) == \E e \in events : e.kind = "abort" /\ e.engine = engine

C8_UnsupportedEngineAlone ==
  pc = "done" =>
    \A e \in unsupported :
      /\ \A r \in Range(results) : r.engine # e
      /\ \A ev \in events : ev.engine # e
      /\ \A f \in Range(args.engines) \ {e} :
           /\ f \in called
           /\ (f \notin unsupported /\ ~Aborted(f)) =>
                \A p \in Positions(f) :
                  (Happened("attempt", f, p) /\ ~Happened("raise", f, p))
                    => \E i \in DOMAIN results : RunKey(results[i]) = KeyAt(f, p)

\* A finished run in which an engine had no GPU support and an engine that
\* main runs after it has a record in the results.
C8_Witness ==
  /\ pc = "done"
  /\ \E e \in unsupported :
       \E r \in Range(results) : IndexOf(r.engine) > IndexOf(e)

(***************************************************************************)
(* Vocabulary of the grid properties of run_onnxruntime.                   *)
(***************************************************************************)
OrtPhases == {"run_onnxruntime", "run_onnxruntime_grid"}

\* The k-th position of the grid in iteration order: models, input counts,
\* batch sizes, sequence lengths.
OrtPosAt(k) ==
  LET ns == Len(args.sequence_lengths)
      nb == Len(args.batch_sizes)
      nc == Len(args.input_counts)
  IN <<((k - 1) \div (ns * nb * nc)) + 1,
       (((k - 1) \div (ns * nb)) % nc) + 1,
       (((k - 1) \div ns) % nb) + 1,
       ((k - 1) % ns) + 1>>

OrtGrid ==
  [k \in 1..(Len(args.models) * Len(args.input_counts)
               * Len(args.batch_sizes) * Len(args.sequence_lengths)) |-> OrtPosAt(k)]

Before(p, q) ==
  \E n \in 1..4 : p[n] < q[n] /\ \A l \in 1..(n - 1) : p[l] = q[l]

\* The positions run_onnxruntime is past: all of them once it is left.
Past(p) == pc \in OrtPhases => Before(p, pos)

ValidAt(p) == Valid(KeyAt("onnxruntime", p))

IsOrt(r) == r.engine = "onnxruntime"

IsDue(p) == Past(p) /\ ValidAt(p) /\ ~BadPair(p)

Keys(records) == [i \in DOMAIN records |-> RunKey(records[i])]

KeysAt(positions) == [i \in DOMAIN positions |-> KeyAt("onnxruntime", positions[i])]

OrtReturned ==
  /\ "onnxruntime" \in called \ unsupported
  /\ pc \notin OrtPhases
  /\ ~Aborted("onnxruntime")

(***************************************************************************)
(* C9: a (model, input count) pair whose artifact is invalid or whose      *)
(* session is None gets no record and no inference, and the grid goes on:  *)
(* the records run_onnxruntime holds are, in order, those of the valid     *)
(* combinations it is past in the other pairs, and these are the records   *)
(* it returns.                                                             *)
(***************************************************************************)
C9_UnusablePairSkipped ==
  /\ \A e \in events : e.kind = "attempt" => ~BadPair(e.pos)
  /\ pc \in OrtPhases => Keys(local) = KeysAt(SelectSeq(OrtGrid, IsDue))
  /\ OrtReturned => Keys(SelectSeq(results, IsOrt)) = KeysAt(SelectSeq(OrtGrid, IsDue))

\* A finished run with an unusable pair and a record of another pair.
C9_Witness ==
  /\ pc = "done"
  /\ \E e \in events : e.kind \in {"invalid", "none"}
  /\ \E r \in Range(results) : IsOrt(r)

(***************************************************************************)
(* C10: without an export, load or inference failure run_onnxruntime       *)
(* returns exactly one record for each combination that survives the three *)
(* skip rules, in grid order, and no other record.                         *)
(***************************************************************************)
OrtFailure ==
  \E e \in events : /\ e.engine = "onnxruntime"
                     /\ e.kind \in {"export_raise", "invalid", "none", "raise"}

C10_OneRecordPerValidCombination ==
  ( /\ "onnxruntime" \in called \ unsupported
    /\ pc \notin OrtPhases
    /\ ~OrtFailure )
    => Keys(SelectSeq(results, IsOrt)) = KeysAt(SelectSeq(OrtGrid, ValidAt))

(***************************************************************************)
(* C11: whatever repeat count the command line gives, 0 and negative ones  *)
(* included, no grid runner calls get_latency_result with an empty         *)
(* sequence of timings.                                                    *)
(***************************************************************************)
C11_ReducerNeverGetsEmptyTimings ==
  \A e \in events : e.kind # "zero_division"

(***************************************************************************)
(* C12: the columns of the fusion statistics report are the union of the   *)
(* pass names of all entries of optimize_model_statistics, so that the row *)
(* of every entry is written, whatever pass names it carries.              *)
(***************************************************************************)
AllPassNames ==
  UNION {DOMAIN fused_operator_statistics[i] : i \in DOMAIN fused_operator_statistics}
    \ {"model_filename"}

C12_FusionColumnsAreUnion ==
  fusion_csv.written =>
    /\ Range(fusion_csv.header) = {"model_filename"} \cup AllPassNames
    /\ fusion_csv.error = ""
    /\ Len(fusion_csv.rows) = Len(optimize_model_statistics)

(***************************************************************************)
(* C13: over any sequence of invocations on one file system an artifact    *)
(* that exists is never exported or optimized again: every artifact on     *)
(* disk was written exactly once, and every entry of                       *)
(* optimize_model_statistics belongs to an optimized artifact that this    *)
(* invocation wrote, so that an invocation that finds the optimized        *)
(* artifact adds no entry.                                                 *)
(***************************************************************************)
C13_ArtifactsProducedOnce ==
  /\ \A i, j \in DOMAIN produced : produced[i].name = produced[j].name => i = j
  /\ files = {produced[i].name : i \in DOMAIN produced}
  /\ \A k \in Range(optimize_model_statistics) :
       \E i \in DOMAIN produced :
         /\ produced[i].invocation = invocation
         /\ produced[i].step = "optimize"
         /\ produced[i].name = optimized_model_filename(k, args.fp16)

\* A later invocation that was asked to optimize, benchmarked a model and
\* found the exported and the optimized artifact on disk: it wrote nothing
\* and recorded no statistics.
C13_Witness ==
  /\ invocation > 1
  /\ pc = "done"
  /\ args.optimize_onnx
  /\ results # <<>>
  /\ optimize_model_statistics = <<>>
  /\ \A i \in DOMAIN produced : produced[i].invocation < invocation

(***************************************************************************)
(* C14: no record of a run of main has device "cpu" together with fp16     *)
(* True: main clears fp16 before any engine runs when the GPU is not asked *)
(* for, and every engine takes the device and the fp16 of its records      *)
(* from these two flags.                                                   *)
(***************************************************************************)
C14_NoFp16OnCpu ==
  \A r \in AllRecords : ~(r.device = "cpu" /\ r.fp16 = "True")

\* A finished run that was given --fp16 without --use_gpu, with a record of
\* onnxruntime and a record of a PyTorch engine, all on cpu without fp16.
C14_Witness ==
  /\ pc = "done"
  /\ \E r \in Range(results) : r.engine = "onnxruntime"
  /\ \E r \in Range(results) : r.engine # "onnxruntime"
  /\ \A r \in Range(results) : r.device = "cpu" /\ r.fp16 = "False"

====
